---- MODULE Spec2Model ----
(***************************************************************************)
(* JSML (src/JSML.js): element builders that accumulate attributes and     *)
(* children through repeated calls of a callable handle, and two renderers *)
(* (markup string, document tree) over the accumulated structure.          *)
(*                                                                         *)
(* JavaScript values are tagged records:                                   *)
(*   [t |-> "null"]  [t |-> "undef"]  [t |-> "str", s |-> ..]              *)
(*   [t |-> "num", n |-> ..]  [t |-> "arr", items |-> <<..>>]              *)
(*   [t |-> "obj", pairs |-> << <<name, value>>, .. >>]  (own enumerable   *)
(*   properties in insertion order)  [t |-> "hdl", id |-> ..] (a callable  *)
(*   element; id indexes the heap of builders).                            *)
(* A builder's _attrs and _children are sequences; the absent/null value   *)
(* and the empty object/array are one value here, because every reader in  *)
(* the source tests truthiness and then iterates.                          *)
(***************************************************************************)
EXTENDS Integers, Sequences, FiniteSets, TLC

VARIABLES nodes, getters, ncalls, op, arg, ret, err, out

vars == <<nodes, getters, ncalls, op, arg, ret, err, out>>

\* ------------------------------------------------------------------ bounds
\* Builders created plus calls made on their handles.
MaxOps == 4

\* Depth of nested html()/dom() calls the engine's call stack admits; deeper
\* than any chain of distinct builders, so only a cycle can exhaust it.
StackLimit == MaxOps + 1

\* ------------------------------------------------------------ JS values
Null == [t |-> "null"]
Undefined == [t |-> "undef"]
Str(s) == [t |-> "str", s |-> s]
Num(n) == [t |-> "num", n |-> n]
Arr(items) == [t |-> "arr", items |-> items]
Obj(pairs) == [t |-> "obj", pairs |-> pairs]
Hdl(id) == [t |-> "hdl", id |-> id]

Digit(d) == <<"0", "1", "2", "3", "4", "5", "6", "7", "8", "9">>[d + 1]

RECURSIVE NumToString(_)
NumToString(n) ==
    IF n < 10 THEN Digit(n) ELSE NumToString(n \div 10) \o Digit(n % 10)

\* String(v), as applied by the + operator, setAttribute and createTextNode.
StringOf(v) ==
    CASE v.t = "null" -> "null"
      [] v.t = "undef" -> "undefined"
      [] v.t = "str" -> v.s
      [] v.t = "num" -> NumToString(v.n)

\* Array.prototype.join's conversion of one element: null and undefined give
\* the empty string, everything else String(v).
JoinElement(v) ==
    IF v.t \in {"null", "undef"} THEN "" ELSE StringOf(v)

RECURSIVE join(_)
join(arr) ==
    IF arr = <<>> THEN "" ELSE JoinElement(Head(arr)) \o join(Tail(arr))

RECURSIVE CharsToString(_)
CharsToString(cs) ==
    IF cs = <<>> THEN "" ELSE Head(cs) \o CharsToString(Tail(cs))

\* -------------------------------------------------------------- builders
ElementBuilder(tag, selfClosing) ==
    [tag |-> IF tag # "" THEN Str(tag) ELSE Null,
     isSelfClosing |-> selfClosing,
     isFragment |-> FALSE,
     attrs |-> <<>>,
     children |-> <<>>]

FragmentBuilder ==
    [tag |-> Null,
     isSelfClosing |-> FALSE,
     isFragment |-> TRUE,
     attrs |-> <<>>,
     children |-> <<>>]

\* callableElement: the new function object ce with ce.build = the builder;
\* the heap grows by one and the handle is its index.
callableElement(ns, builder) ==
    [ns |-> Append(ns, builder), handle |-> Len(ns) + 1]

__isCallableElement(ch) == ch.t = "hdl"

\* tag specs are character sequences; the result is <<name, selfClosing>>.
_parseTag(tag) ==
    IF tag # <<>> /\ tag[Len(tag)] = "/"
    THEN <<CharsToString(SubSeq(tag, 1, Len(tag) - 1)), TRUE>>
    ELSE <<CharsToString(tag), FALSE>>

\* ------------------------------------------------------------- HTML
\* Variant: the value is always written, null included.
RECURSIVE attrFragments_noSentinel(_)
attrFragments_noSentinel(attrs) ==
    IF attrs = <<>> THEN <<>>
    ELSE <<Str(" " \o Head(attrs)[1]),
           Str("=\"" \o StringOf(Head(attrs)[2]) \o "\"")>>
         \o attrFragments_noSentinel(Tail(attrs))

RECURSIVE attrFragments(_)
attrFragments(attrs) ==
    IF attrs = <<>> THEN <<>>
    ELSE LET name == Head(attrs)[1]
             value == Head(attrs)[2]
         IN  <<Str(" " \o name)>>
             \o (IF value # Null
                 THEN <<Str("=\"" \o StringOf(value) \o "\"")>>
                 ELSE <<>>)
             \o attrFragments(Tail(attrs))

_openTag(b) ==
    <<Str("<"), b.tag>>
    \o attrFragments(b.attrs)
    \o <<Str(IF b.isSelfClosing THEN "/>" ELSE ">")>>

\* Variant: the closing tag is written for self-closing builders too.
_closeTag_always(b, arr) ==
    Append(arr, Str("</" \o StringOf(b.tag) \o ">"))

_closeTag(b, arr) ==
    IF ~b.isSelfClosing
    THEN Append(arr, Str("</" \o StringOf(b.tag) \o ">"))
    ELSE arr

\* Variant: the fragment prototype overrides nothing.
proto_noOverride(b) == "ElementBuilder"

\* Which html/_domElement the prototype chain resolves to for a builder.
proto(b) == IF b.isFragment THEN "FragmentBuilder" ELSE "ElementBuilder"

\* Results of the renderers are [ok, ..]; ok = FALSE is the RangeError the
\* engine raises when the nesting of calls exceeds StackLimit.
RECURSIVE html(_, _, _)
RECURSIVE htmlForEach(_, _, _, _)

\* this._children.forEach(...) of _innerHTML; an exception ends the loop.
htmlForEach(ns, chs, arr, depth) ==
    IF chs = <<>> THEN [ok |-> TRUE, arr |-> arr]
    ELSE LET ch == Head(chs) IN
         IF __isCallableElement(ch)
         THEN LET r == html(ns, ch.id, depth + 1) IN
              IF r.ok
              THEN htmlForEach(ns, Tail(chs), Append(arr, Str(r.s)), depth)
              ELSE [ok |-> FALSE, arr |-> arr]
         ELSE htmlForEach(ns, Tail(chs), Append(arr, ch), depth)

_innerHTML(ns, b, arr, depth) ==
    IF ~b.isSelfClosing /\ b.children # <<>>
    THEN htmlForEach(ns, b.children, arr, depth)
    ELSE [ok |-> TRUE, arr |-> arr]

html(ns, id, depth) ==
    IF depth > StackLimit THEN [ok |-> FALSE, s |-> ""]
    ELSE LET b == ns[id]
             inner == _innerHTML(ns, b,
                          IF proto(b) = "FragmentBuilder" THEN <<>>
                          ELSE _openTag(b), depth)
         IN  IF ~inner.ok THEN [ok |-> FALSE, s |-> ""]
             ELSE IF proto(b) = "FragmentBuilder"
             THEN [ok |-> TRUE, s |-> join(inner.arr)]
             ELSE [ok |-> TRUE, s |-> join(_closeTag(b, inner.arr))]

\* -------------------------------------------------------------- DOM
\* The host document: the five operations the structural renderer calls.
createElement(tag) ==
    [kind |-> "element", tagName |-> StringOf(tag),
     attributes |-> <<>>, childNodes |-> <<>>]

createDocumentFragment == [kind |-> "fragment", childNodes |-> <<>>]

createTextNode(data) == [kind |-> "text", data |-> StringOf(data)]

\* setAttribute stores the value converted to a string; the names it is
\* given are the keys of one _attrs object, so none is set twice.
setAttribute(el, name, value) ==
    [el EXCEPT !.attributes = Append(@, <<name, StringOf(value)>>)]

\* Appending a document fragment appends its children in its place.
appendChild(el, child) ==
    [el EXCEPT !.childNodes =
        IF child.kind = "fragment" THEN @ \o child.childNodes
        ELSE Append(@, child)]

RECURSIVE setAttributes(_, _)
setAttributes(el, attrs) ==
    IF attrs = <<>> THEN el
    ELSE setAttributes(setAttribute(el, Head(attrs)[1], Head(attrs)[2]),
                       Tail(attrs))

_domElement(b) ==
    IF proto(b) = "FragmentBuilder" THEN createDocumentFragment
    ELSE setAttributes(createElement(b.tag), b.attrs)

RECURSIVE dom(_, _, _)
RECURSIVE domForEach(_, _, _, _)

domForEach(ns, chs, el, depth) ==
    IF chs = <<>> THEN [ok |-> TRUE, el |-> el]
    ELSE LET ch == Head(chs) IN
         IF __isCallableElement(ch)
         THEN LET r == dom(ns, ch.id, depth + 1) IN
              IF r.ok
              THEN domForEach(ns, Tail(chs), appendChild(el, r.el), depth)
              ELSE [ok |-> FALSE, el |-> el]
         ELSE domForEach(ns, Tail(chs),
                         appendChild(el, createTextNode(ch)), depth)

_domChildren(ns, b, el, depth) ==
    IF ~b.isSelfClosing /\ b.children # <<>>
    THEN domForEach(ns, b.children, el, depth)
    ELSE [ok |-> TRUE, el |-> el]

dom(ns, id, depth) ==
    IF depth > StackLimit THEN [ok |-> FALSE, el |-> createDocumentFragment]
    ELSE _domChildren(ns, ns[id], _domElement(ns[id]), depth)

\* ------------------------------------------------------------ parse
\* Variant: a key that is already set keeps its value.
assign_keepFirst(attrs, name, value) ==
    IF \E i \in 1..Len(attrs) : attrs[i][1] = name
    THEN attrs
    ELSE Append(attrs, <<name, value>>)

\* this._attrs[attrname] = value: an existing key keeps its position.
assign(attrs, name, value) ==
    IF \E i \in 1..Len(attrs) : attrs[i][1] = name
    THEN [i \in 1..Len(attrs) |->
             IF attrs[i][1] = name THEN <<name, value>> ELSE attrs[i]]
    ELSE Append(attrs, <<name, value>>)

\* for (var attrname in item) this._attrs[attrname] = item[attrname]
RECURSIVE mergeAttrs(_, _)
mergeAttrs(attrs, pairs) ==
    IF pairs = <<>> THEN attrs
    ELSE mergeAttrs(assign(attrs, Head(pairs)[1], Head(pairs)[2]),
                    Tail(pairs))

setAttrs(ns, h, item) ==
    [ns EXCEPT ![h].attrs = mergeAttrs(@, item.pairs)]

\* Variant: _children is one array on the prototype, shared by all builders.
pushChild_shared(ns, h, item) ==
    [i \in 1..Len(ns) |-> [ns[i] EXCEPT !.children = Append(@, item)]]

\* Variant: a child handle is rendered when it is passed and its markup is
\* stored in its place.
pushChild_snapshot(ns, h, item) ==
    [ns EXCEPT ![h].children =
        Append(@, IF __isCallableElement(item)
                  THEN Str(html(ns, item.id, 1).s) ELSE item)]

pushChild(ns, h, item) ==
    [ns EXCEPT ![h].children = Append(@, item)]

\* parse and the forEach loops that drive it (over the arguments of a call
\* and over the elements of an array) return the heap and whether the
\* SyntaxError was thrown; a throw ends every enclosing loop.
RECURSIVE parse(_, _, _)
RECURSIVE forEachParse(_, _, _)

\* Variant: the loop runs from the last element to the first.
RECURSIVE forEachParse_reversed(_, _, _)
forEachParse_reversed(ns, h, items) ==
    IF items = <<>> THEN [ns |-> ns, thrown |-> FALSE]
    ELSE LET r == parse(ns, h, items[Len(items)]) IN
         IF r.thrown THEN r
         ELSE forEachParse_reversed(r.ns, h, SubSeq(items, 1, Len(items) - 1))

forEachParse(ns, h, items) ==
    IF items = <<>> THEN [ns |-> ns, thrown |-> FALSE]
    ELSE LET r == parse(ns, h, Head(items)) IN
         IF r.thrown THEN r ELSE forEachParse(r.ns, h, Tail(items))

\* Variant: null and undefined are skipped instead of rejected.
parse_skipNothing(ns, h, item) ==
    IF item.t \in {"null", "undef"} THEN [ns |-> ns, thrown |-> FALSE]
    ELSE IF item.t = "arr" THEN forEachParse(ns, h, item.items)
    ELSE IF item.t = "obj"
    THEN [ns |-> setAttrs(ns, h, item), thrown |-> FALSE]
    ELSE [ns |-> pushChild(ns, h, item), thrown |-> FALSE]

parse(ns, h, item) ==
    IF item.t \in {"null", "undef"} THEN [ns |-> ns, thrown |-> TRUE]
    ELSE IF item.t = "arr" THEN forEachParse(ns, h, item.items)
    ELSE IF item.t = "obj"
    THEN [ns |-> setAttrs(ns, h, item), thrown |-> FALSE]
    ELSE [ns |-> pushChild(ns, h, item), thrown |-> FALSE]

\* --------------------------------------------------------- registry
\* getters maps an accessor name to the <<tag, selfClosing>> its closure
\* holds; defining a getter again replaces the earlier one.
RECURSIVE tags(_, _)
tags(gs, specs) ==
    IF specs = <<>> THEN gs
    ELSE LET args == _parseTag(Head(specs))
         IN  tags((args[1] :> args) @@ gs, Tail(specs))

\* ------------------------------------------------------------ inputs
body == <<"b", "o", "d", "y">>
br == <<"b", "r", "/">>

TagSpecs == {body, br}
TagLists == {<<br>>, <<body, br>>}
InitTags == {<<body>>}

O1 == Obj(<< <<"id", Str("a")>> >>)
O2 == Obj(<< <<"hidden", Null>>, <<"id", Str("b")>> >>)

ArgLists(n) ==
    { <<O2, O1>>,
      <<Arr(<<O1, Arr(<<O2>>)>>)>>,
      <<Str("x"), Num(10)>>,
      <<Arr(<<Str("x"), Arr(<<Num(10)>>)>>)>>,
      <<Str("x"), Null, O1>>,
      <<Arr(<<O1, Arr(<<Undefined, Str("x")>>)>>), Num(10)>> }
    \cup { <<Hdl(c)>> : c \in 1..n }
    \cup { <<Arr(<<Hdl(c), Arr(<<Str("x")>>)>>), O2>> : c \in 1..n }

NoArg == [h |-> 0, args |-> <<>>, spec |-> <<>>]
NoOut == [kind |-> "none"]

\* ------------------------------------------------------------ actions
Init ==
    /\ \E specs \in InitTags : getters = tags(<<>>, specs)
    /\ nodes = <<>>
    /\ ncalls = 0
    /\ op = "JSML"
    /\ arg = NoArg
    /\ ret = 0
    /\ err = "none"
    /\ out = NoOut

\* registry.tags(...)
Tags ==
    \E specs \in TagLists :
        /\ getters' = tags(getters, specs)
        /\ op' = "tags"
        /\ arg' = NoArg
        /\ ret' = 0
        /\ err' = "none"
        /\ out' = NoOut
        /\ UNCHANGED <<nodes, ncalls>>

\* registry.<name>: the getter defined by tags
Getter ==
    \E name \in DOMAIN getters :
        LET args == getters[name]
            r == callableElement(nodes, ElementBuilder(args[1], args[2]))
        IN  /\ Len(nodes) + ncalls < MaxOps
            /\ nodes' = r.ns
            /\ ret' = r.handle
            /\ op' = "getter"
            /\ arg' = [NoArg EXCEPT !.spec = <<name>>]
            /\ err' = "none"
            /\ out' = NoOut
            /\ UNCHANGED <<getters, ncalls>>

\* registry.create(tag)
Create ==
    \E spec \in TagSpecs :
        LET args == _parseTag(spec)
            r == callableElement(nodes, ElementBuilder(args[1], args[2]))
        IN  /\ Len(nodes) + ncalls < MaxOps
            /\ nodes' = r.ns
            /\ ret' = r.handle
            /\ op' = "create"
            /\ arg' = [NoArg EXCEPT !.spec = spec]
            /\ err' = "none"
            /\ out' = NoOut
            /\ UNCHANGED <<getters, ncalls>>

\* registry.frag
Frag ==
    LET r == callableElement(nodes, FragmentBuilder) IN
    /\ Len(nodes) + ncalls < MaxOps
    /\ nodes' = r.ns
    /\ ret' = r.handle
    /\ op' = "frag"
    /\ arg' = NoArg
    /\ err' = "none"
    /\ out' = NoOut
    /\ UNCHANGED <<getters, ncalls>>

\* handle(...args)
Invoke ==
    \E h \in 1..Len(nodes) : \E args \in ArgLists(Len(nodes)) :
        LET r == forEachParse(nodes, h, args) IN
        /\ Len(nodes) + ncalls < MaxOps
        /\ ncalls' = ncalls + 1
        /\ nodes' = r.ns
        /\ op' = "invoke"
        /\ arg' = [NoArg EXCEPT !.h = h, !.args = args]
        /\ ret' = IF r.thrown THEN 0 ELSE h
        /\ err' = IF r.thrown THEN "SyntaxError" ELSE "none"
        /\ out' = NoOut
        /\ UNCHANGED getters

\* handle.build.html()
Html ==
    \E h \in 1..Len(nodes) :
        LET r == html(nodes, h, 1) IN
        /\ op' = "html"
        /\ arg' = [NoArg EXCEPT !.h = h]
        /\ ret' = 0
        /\ err' = IF r.ok THEN "none" ELSE "RangeError"
        /\ out' = [kind |-> "html", ok |-> r.ok, s |-> r.s]
        /\ UNCHANGED <<nodes, getters, ncalls>>

\* handle.build.dom()
Dom ==
    \E h \in 1..Len(nodes) :
        LET r == dom(nodes, h, 1) IN
        /\ op' = "dom"
        /\ arg' = [NoArg EXCEPT !.h = h]
        /\ ret' = 0
        /\ err' = IF r.ok THEN "none" ELSE "RangeError"
        /\ out' = [kind |-> "dom", ok |-> r.ok, el |-> r.el]
        /\ UNCHANGED <<nodes, getters, ncalls>>

Next == Tags \/ Getter \/ Create \/ Frag \/ Invoke \/ Html \/ Dom

Spec == Init /\ [][Next]_vars

\* ===================================================================
\* Reference notions the properties are stated with
\* ===================================================================
IsNothing(v) == v.t \in {"null", "undef"}

\* The arguments of a call with every array replaced by its elements.
RECURSIVE Flatten(_)
Flatten(items) ==
    IF items = <<>> THEN <<>>
    ELSE IF Head(items).t = "arr"
    THEN Flatten(Head(items).items) \o Flatten(Tail(items))
    ELSE <<Head(items)>> \o Flatten(Tail(items))

HasNothing(items) ==
    \E i \in 1..Len(Flatten(items)) : IsNothing(Flatten(items)[i])

\* The flattened arguments that precede the first null or undefined.
RECURSIVE UpToNothing(_)
UpToNothing(flat) ==
    IF flat = <<>> \/ IsNothing(Head(flat)) THEN <<>>
    ELSE <<Head(flat)>> \o UpToNothing(Tail(flat))

Effective(items) == UpToNothing(Flatten(items))

IsObj(v) == v.t = "obj"
IsChild(v) == v.t # "obj"

\* A sequence of name/value pairs as a mapping; a later pair wins.
RECURSIVE PairsMap(_)
PairsMap(pairs) ==
    IF pairs = <<>> THEN <<>>
    ELSE LET n == Len(pairs)
         IN  (pairs[n][1] :> pairs[n][2]) @@ PairsMap(SubSeq(pairs, 1, n - 1))

\* Left-to-right merge of attribute objects into a mapping.
RECURSIVE MergeLeft(_, _)
MergeLeft(m, objs) ==
    IF objs = <<>> THEN m
    ELSE MergeLeft(PairsMap(Head(objs).pairs) @@ m, Tail(objs))

NamesUnique(attrs) ==
    \A i, j \in 1..Len(attrs) : attrs[i][1] = attrs[j][1] => i = j

InvokeStep == op' = "invoke"
Target == arg'.h
Passed == arg'.args

Others(h) == (1..Len(nodes)) \ {h}

\* Text of the attribute list of an open tag.
RECURSIVE AttrText(_)
AttrText(attrs) ==
    IF attrs = <<>> THEN ""
    ELSE " " \o Head(attrs)[1]
         \o (IF Head(attrs)[2] = Null THEN ""
             ELSE "=\"" \o StringOf(Head(attrs)[2]) \o "\"")
         \o AttrText(Tail(attrs))

\* Concatenated string renders of a children sequence.
RECURSIVE KidsText(_, _)
KidsText(ns, chs) ==
    IF chs = <<>> THEN ""
    ELSE (IF Head(chs).t = "hdl" THEN html(ns, Head(chs).id, 1).s
          ELSE StringOf(Head(chs)))
         \o KidsText(ns, Tail(chs))

\* The document nodes a children sequence contributes to its parent.
RECURSIVE KidsNodes(_, _)
KidsNodes(ns, chs) ==
    IF chs = <<>> THEN <<>>
    ELSE (IF Head(chs).t = "hdl"
          THEN LET el == dom(ns, Head(chs).id, 1).el
               IN  IF el.kind = "fragment" THEN el.childNodes ELSE <<el>>
          ELSE <<[kind |-> "text", data |-> StringOf(Head(chs))]>>)
         \o KidsNodes(ns, Tail(chs))

\* The children sequence with each fragment child replaced by that
\* fragment's own children.
RECURSIVE Splice(_, _)
Splice(ns, chs) ==
    IF chs = <<>> THEN <<>>
    ELSE (IF Head(chs).t = "hdl" /\ ns[Head(chs).id].isFragment
          THEN ns[Head(chs).id].children
          ELSE <<Head(chs)>>)
         \o Splice(ns, Tail(chs))

Spliced(ns, p) == [ns EXCEPT ![p].children = Splice(ns, @)]

HasFragmentChild(ns, p) ==
    \E i \in 1..Len(ns[p].children) :
        ns[p].children[i].t = "hdl" /\ ns[ns[p].children[i].id].isFragment

Rendered == arg.h

\* The delimiters a builder's string render puts around its children.
OpenText(b) ==
    IF b.isFragment THEN ""
    ELSE "<" \o StringOf(b.tag) \o AttrText(b.attrs) \o ">"

CloseText(b) ==
    IF b.isFragment THEN "" ELSE "</" \o StringOf(b.tag) \o ">"

\* Builders reachable from a set of builders through child handles.
ChildIds(ns, id) ==
    { ns[id].children[i].id :
        i \in { j \in 1..Len(ns[id].children) : ns[id].children[j].t = "hdl" } }

RECURSIVE Reach(_, _)
Reach(ns, S) ==
    LET T == S \cup UNION { ChildIds(ns, id) : id \in S }
    IN  IF T = S THEN S ELSE Reach(ns, T)

\* Serialisation of a document node in the notation of the string renderer.
VoidElements == {"br"}

RECURSIVE Linearize(_)
RECURSIVE LinearizeAll(_)
LinearizeAll(els) ==
    IF els = <<>> THEN ""
    ELSE Linearize(Head(els)) \o LinearizeAll(Tail(els))

RECURSIVE AttributesText(_)
AttributesText(attributes) ==
    IF attributes = <<>> THEN ""
    ELSE " " \o Head(attributes)[1] \o "=\"" \o Head(attributes)[2] \o "\""
         \o AttributesText(Tail(attributes))

Linearize(el) ==
    CASE el.kind = "text" -> el.data
      [] el.kind = "fragment" -> LinearizeAll(el.childNodes)
      [] el.kind = "element" ->
            "<" \o el.tagName \o AttributesText(el.attributes)
            \o (IF el.tagName \in VoidElements THEN "/>"
                ELSE ">" \o LinearizeAll(el.childNodes)
                     \o "</" \o el.tagName \o ">")

\* ===================================================================
\* Properties
\* ===================================================================

\* C1: whatever attribute objects a call passes to a handle (flat, nested in
\* arrays, or over several calls, each call continuing from the mapping the
\* previous ones left), the builder's attribute mapping afterwards is the
\* left-to-right merge of them into the earlier mapping, a later value for a
\* key overwriting the earlier one.
C1_AttributesMerge ==
    [][InvokeStep =>
         /\ NamesUnique(nodes'[Target].attrs)
         /\ PairsMap(nodes'[Target].attrs) =
                MergeLeft(PairsMap(nodes[Target].attrs),
                          SelectSeq(Effective(Passed), IsObj))]_vars

C1_Witness ==
    /\ op = "invoke" /\ err = "none" /\ ncalls >= 2
    /\ arg.args = <<Arr(<<O1, Arr(<<O2>>)>>)>>
    /\ nodes[arg.h].attrs = << <<"hidden", Null>>, <<"id", Str("b")>> >>

\* C2: the children a call adds to a builder are the literals and handles of
\* its arguments in flattened left-to-right order, appended after the
\* children of earlier calls; a flat list, a nested array and one call per
\* child therefore give the same children sequence.
C2_ChildrenOrder ==
    [][InvokeStep =>
         nodes'[Target].children =
             nodes[Target].children
             \o SelectSeq(Effective(Passed), IsChild)]_vars

C2_Witness ==
    /\ op = "invoke" /\ err = "none" /\ ncalls >= 2
    /\ arg.args = <<Arr(<<Str("x"), Arr(<<Num(10)>>)>>)>>
    /\ Len(nodes[arg.h].children) = 3
    /\ nodes[arg.h].children[1].t = "hdl"
    /\ SubSeq(nodes[arg.h].children, 2, 3) = <<Str("x"), Num(10)>>

\* C3: a call whose flattened arguments contain null or undefined throws
\* (SyntaxError is the source's InvalidArgument) and returns nothing; the
\* builder then holds its earlier state plus exactly what the flattened
\* arguments before that value contribute, and every other builder is as
\* before.
C3_NothingThrows ==
    [][InvokeStep /\ HasNothing(Passed) =>
         /\ err' = "SyntaxError"
         /\ ret' = 0
         /\ PairsMap(nodes'[Target].attrs) =
                MergeLeft(PairsMap(nodes[Target].attrs),
                          SelectSeq(Effective(Passed), IsObj))
         /\ nodes'[Target].children =
                nodes[Target].children
                \o SelectSeq(Effective(Passed), IsChild)
         /\ \A m \in Others(Target) : nodes'[m] = nodes[m]]_vars

C3_Witness ==
    /\ op = "invoke" /\ err = "SyntaxError"
    /\ arg.args = <<Arr(<<O1, Arr(<<Undefined, Str("x")>>)>>), Num(10)>>
    /\ nodes[arg.h].attrs = << <<"id", Str("a")>> >>
    /\ nodes[arg.h].children = <<>>

\* C4: a self-closing builder accepts children without error and renders
\* none of them: its string render is the open tag with its attributes
\* ending in "/>", and its document element has no child.
C4_SelfClosing ==
    /\ (op = "html" /\ nodes[Rendered].isSelfClosing) =>
           /\ out.ok
           /\ out.s = "<" \o StringOf(nodes[Rendered].tag)
                      \o AttrText(nodes[Rendered].attrs) \o "/>"
    /\ (op = "dom" /\ nodes[Rendered].isSelfClosing) =>
           /\ out.ok
           /\ out.el.kind = "element"
           /\ out.el.childNodes = <<>>
    /\ (op = "invoke" /\ nodes[arg.h].isSelfClosing
          /\ ~HasNothing(arg.args)) => err = "none"

C4_Witness ==
    /\ op = "html" /\ nodes[Rendered].isSelfClosing
    /\ Len(nodes[Rendered].children) >= 2
    /\ nodes[Rendered].attrs # <<>>

\* C5: a fragment renders as the concatenation of its children's renders,
\* without delimiters, and as a document fragment that carries no tag and
\* no attribute and holds its children's nodes in order, whatever
\* attributes it was given; as a child it contributes exactly what its own
\* children would contribute in its place.
C5_Fragment ==
    /\ (op = "html" /\ out.ok /\ nodes[Rendered].isFragment) =>
           out.s = KidsText(nodes, nodes[Rendered].children)
    /\ (op = "dom" /\ out.ok /\ nodes[Rendered].isFragment) =>
           /\ out.el.kind = "fragment"
           /\ DOMAIN out.el = {"kind", "childNodes"}
           /\ out.el.childNodes = KidsNodes(nodes, nodes[Rendered].children)
    /\ (op = "html" /\ out.ok /\ ~nodes[Rendered].isSelfClosing
          /\ HasFragmentChild(nodes, Rendered)) =>
           out.s = html(Spliced(nodes, Rendered), Rendered, 1).s
    /\ (op = "dom" /\ out.ok /\ ~nodes[Rendered].isSelfClosing
          /\ HasFragmentChild(nodes, Rendered)) =>
           out.el = dom(Spliced(nodes, Rendered), Rendered, 1).el

C5_Witness ==
    /\ op = "html" /\ out.ok /\ nodes[Rendered].isFragment
    /\ nodes[Rendered].attrs # <<>>
    /\ Len(nodes[Rendered].children) >= 2

\* C6: for every builder both renderers can render, the document tree
\* written out in the string renderer's notation is the string render.
C6_RenderersAgree ==
    \A n \in 1..Len(nodes) :
        (html(nodes, n, 1).ok /\ dom(nodes, n, 1).ok) =>
            Linearize(dom(nodes, n, 1).el) = html(nodes, n, 1).s

\* C7 as stated: every accessor access, create call and fragment access
\* gives a new handle on a new builder without attributes or children, and
\* a call on one handle leaves every other builder's attributes, children
\* and both renders unchanged.
C7_Independent ==
    [][/\ op' \in {"getter", "create", "frag"} =>
           /\ ret' = Len(nodes) + 1
           /\ Len(nodes') = Len(nodes) + 1
           /\ nodes'[ret'].attrs = <<>>
           /\ nodes'[ret'].children = <<>>
           /\ \A m \in 1..Len(nodes) : nodes'[m] = nodes[m]
       /\ InvokeStep =>
           \A m \in Others(Target) :
               /\ nodes'[m] = nodes[m]
               /\ html(nodes', m, 1) = html(nodes, m, 1)
               /\ dom(nodes', m, 1) = dom(nodes, m, 1)]_vars

\* C7 amended: as C7, except that the renders of another builder are only
\* unchanged when the called builder is not reachable from it through child
\* handles.
C7_IndependentUnlessDescendant ==
    [][/\ op' \in {"getter", "create", "frag"} =>
           /\ ret' = Len(nodes) + 1
           /\ Len(nodes') = Len(nodes) + 1
           /\ nodes'[ret'].attrs = <<>>
           /\ nodes'[ret'].children = <<>>
           /\ \A m \in 1..Len(nodes) : nodes'[m] = nodes[m]
       /\ InvokeStep =>
           \A m \in Others(Target) :
               /\ nodes'[m] = nodes[m]
               /\ Target \notin Reach(nodes, {m}) =>
                      /\ html(nodes', m, 1) = html(nodes, m, 1)
                      /\ dom(nodes', m, 1) = dom(nodes, m, 1)]_vars

C7_Witness ==
    /\ op = "invoke" /\ err = "none" /\ Len(nodes) >= 2
    /\ \E m \in Others(arg.h) :
           /\ nodes[m].tag = nodes[arg.h].tag
           /\ nodes[m].isSelfClosing = nodes[arg.h].isSelfClosing
           /\ nodes[m].attrs = <<>> /\ nodes[m].children = <<>>
           /\ nodes[arg.h].attrs # <<>> /\ nodes[arg.h].children # <<>>

\* C8: the string render of a tagged builder that is not self-closing is
\* "<" tag, per attribute in stored order a space and the name, followed by
\* ="value" unless the value is null, then ">", the renders of the children
\* in stored order (a handle by its own string render, a literal by its
\* string form), then "</" tag ">"; body(br()) renders "<body><br/></body>".
C8_NormalMarkup ==
    (op = "html" /\ out.ok /\ ~nodes[Rendered].isFragment
       /\ ~nodes[Rendered].isSelfClosing /\ nodes[Rendered].tag # Null) =>
        /\ out.s = "<" \o nodes[Rendered].tag.s
                   \o AttrText(nodes[Rendered].attrs) \o ">"
                   \o KidsText(nodes, nodes[Rendered].children)
                   \o "</" \o nodes[Rendered].tag.s \o ">"
        /\ (/\ nodes[Rendered].tag = Str("body")
            /\ nodes[Rendered].attrs = <<>>
            /\ Len(nodes[Rendered].children) = 1
            /\ nodes[Rendered].children[1].t = "hdl"
            /\ nodes[nodes[Rendered].children[1].id] =
                   ElementBuilder("br", TRUE)) =>
               out.s = "<body><br/></body>"

C8_Witness ==
    /\ op = "html" /\ out.ok
    /\ nodes[Rendered].tag = Str("body") /\ ~nodes[Rendered].isSelfClosing
    /\ \E i \in 1..Len(nodes[Rendered].attrs) :
           nodes[Rendered].attrs[i][2] = Null
    /\ \E i, j \in 1..Len(nodes[Rendered].children) :
           /\ nodes[Rendered].children[i].t = "hdl"
           /\ nodes[Rendered].children[j].t = "str"

\* C9: every render terminates with a result, whatever structure the calls
\* have built.
C9_RendersTerminate ==
    op \in {"html", "dom"} => out.ok

====
